---- MODULE Spec2Model ----
(***************************************************************************)
(* VSD monitoring: the three acquisition variants of src/vsd_monitoring    *)
(*   "logging" = vsd_monitoring_logging.py                                 *)
(*   "ver13"   = read_drive_temp_vsd_g3_ver13.py                           *)
(*   "ver12"   = vsd_g3_read_ver12.py                                      *)
(* polling a fleet of drives over one Modbus client and appending one row  *)
(* per metric and cycle to a SQLite file.                                  *)
(*                                                                         *)
(* Console output (print, tabulate) is not modelled.  Unit identifiers     *)
(* range over the registry VSD_NAMES, so the name lookups inside the       *)
(* messages always succeed.                                                *)
(***************************************************************************)
EXTENDS Integers, Sequences, FiniteSets, TLC

VARIABLES
    variant,      \* which of the three scripts is running
    pc,           \* position of main()
    unit_id,      \* loop variable of "for unit_id in range(1, TOTAL_UNITS + 1)"
    acc,          \* the per-metric lists main() fills during one cycle
    temperature,  \* ver13: result of the temperature read, held across awaits
    current,      \* ver13: result of the current read, held across awaits
    stamp,        \* (date, time_str) captured at the top of the cycle
    clock,        \* wall clock, in seconds
    cycle,        \* number of cycles started so far
    save_idx,     \* index of the next save_to_database call of the cycle
    db,           \* the SQLite file: table name -> column type and rows
    calls,        \* save_to_database calls made in the current cycle
    heard,        \* responses the client returned in the current cycle
    faults,       \* number of failures injected so far
    slept,        \* number of interval sleeps performed so far
    last,         \* the most recent read call: arguments, response, result
    failUnit,     \* isolation experiment: the unit whose reads fail in the twin run
    twin,         \* isolation experiment: the lists of the twin run
    fetched,      \* dashboard: result of the most recent fetch_data_from_table
    site,         \* which register contents the fleet holds
    awaiting,     \* main() is suspended at an await of a client read
    inflight,     \* number of requests sent whose response has not arrived
    create_idx    \* index of the next CREATE TABLE of initialize_database

vars == <<variant, pc, unit_id, acc, temperature, current, stamp, clock, cycle,
          save_idx, db, calls, heard, faults, slept, last, failUnit, twin, fetched, site,
          create_idx, awaiting, inflight>>

mainVars == <<variant, pc, unit_id, acc, temperature, current, stamp, clock,
              cycle, save_idx, db, calls, heard, faults, slept, failUnit, twin, fetched,
              site, create_idx, awaiting, inflight>>

----------------------------------------------------------------------------
(* Bounds of the model.  The scripts set TOTAL_UNITS = 13; the model runs   *)
(* the same code over the first TOTAL_UNITS units of the registry.          *)
(*   MaxCycles  cycles main() may start                                     *)
(*   MaxFaults  failures the environment may inject in one behaviour        *)
(*              (failed or malformed reads, failing INSERTs)                *)
(*   MaxCount   largest register count of a direct call of the readers      *)
(*   MaxRows    rows the metric tables hold when the dashboard is asked     *)
(*              after a long run of the script                              *)
(*   ReadSeconds  time one request to a drive takes, in seconds: long       *)
(*              enough for the minute to change while a cycle reads         *)

TOTAL_UNITS == 2

MaxCycles == 2

MaxFaults == 1

MaxCount == 2

ReadSeconds == 20

MaxRows == 12

READ_INTERVAL == 60

Variants == {"logging", "ver13", "ver12"}

AllNames == <<"CT_9", "CT_10", "CT_11", "CT_12", "CT_13", "CHWP_6", "CHWP_7",
              "CHWP_8", "CHWP_9", "CCP_6", "CCP_7", "CCP_8", "CCP_9">>

VSD_NAMES == [u \in 1..TOTAL_UNITS |-> AllNames[u]]

----------------------------------------------------------------------------
(* Python values that end up in a row.  A float is kept as the reduced      *)
(* fraction it was computed from, so that 300/10 and 3000/100 are equal and *)
(* 0/10 is the number 0.                                                    *)

None == [tag |-> "None", n |-> 0, d |-> 1, s |-> ""]

Str(x) == [tag |-> "str", n |-> 0, d |-> 1, s |-> x]

Abs(x) == IF x < 0 THEN -x ELSE x

RECURSIVE GCD(_, _)
GCD(a, b) == IF b = 0 THEN a ELSE GCD(b, a % b)

\* raw_value / scaling_factor for a non-zero divisor (true division)
TrueDiv(r, d) ==
    LET g == GCD(Abs(r), Abs(d))
        sgn == IF d < 0 THEN -1 ELSE 1
    IN  [tag |-> "float", n |-> sgn * (r \div g), d |-> sgn * (d \div g), s |-> ""]

\* lo <= v <= hi for integer bounds and a float v
InRange(lo, v, hi) == lo * v.d <= v.n /\ v.n <= hi * v.d

\* [x] * count
Repeat(x, count) == [i \in 1..count |-> x]

\* seq[i] with Python's 0-based index
At(seq, i) == seq[i + 1]

----------------------------------------------------------------------------
(* Responses of the Modbus client.                                          *)
(*   kind "exception": the awaited call raised                              *)
(*   kind "error":     response.isError() is true                           *)
(*   kind "ok":        registers (holding registers) or bits (discrete)     *)

ExcResp == [kind |-> "exception", registers |-> <<>>, bits |-> <<>>]

ErrResp == [kind |-> "error", registers |-> <<>>, bits |-> <<>>]

RegResp(regs) == [kind |-> "ok", registers |-> regs, bits |-> <<>>]

BitResp(bits) == [kind |-> "ok", registers |-> <<>>, bits |-> bits]

\* outcome of a block of code: a value, or an exception leaving the block
Ret(v) == [raised |-> FALSE, value |-> v]

Raise == [raised |-> TRUE, value |-> <<>>]

\* an exception leaving a block that had brought its lists to v
RaiseWith(v) == [raised |-> TRUE, value |-> v]

\* the for loop of read_vsd_data_batch from offset i on (0-based)
RECURSIVE DecodeLoop(_, _, _, _, _)
DecodeLoop(registers, scaling_factors, valid_ranges, i, values) ==
    IF i >= Len(registers) THEN Ret(values)
    ELSE IF i >= Len(scaling_factors) THEN Raise          \* IndexError
    ELSE IF At(scaling_factors, i) = 0 THEN Raise         \* ZeroDivisionError
    ELSE IF i >= Len(valid_ranges) THEN Raise             \* IndexError
    ELSE LET scaled_value == TrueDiv(At(registers, i), At(scaling_factors, i))
             valid_range == At(valid_ranges, i)
             v == IF InRange(valid_range[1], scaled_value, valid_range[2])
                  THEN scaled_value ELSE None
         IN  DecodeLoop(registers, scaling_factors, valid_ranges, i + 1,
                        Append(values, v))

\* the try block of read_vsd_data_batch
BatchTry(count, scaling_factors, valid_ranges, response) ==
    IF response.kind = "exception" THEN Raise
    ELSE IF response.kind = "error" THEN Ret(Repeat(None, count))
    ELSE DecodeLoop(response.registers, scaling_factors, valid_ranges, 0, <<>>)

\* seeded bug: no except clause, an exception of the try block leaves the function
BatchPropagates(unit_id_, count, scaling_factors, valid_ranges, response) ==
    BatchTry(count, scaling_factors, valid_ranges, response)

\* seeded bug: an out-of-range value is clamped to the nearer bound
BatchClamps(unit_id_, count, scaling_factors, valid_ranges, response) ==
    LET t == BatchTry(count, scaling_factors, valid_ranges, response)
        clamp(i) ==
            IF t.value[i] # None \/ response.kind # "ok" THEN t.value[i]
            ELSE IF response.registers[i] < valid_ranges[i][1] * scaling_factors[i]
                 THEN TrueDiv(valid_ranges[i][1], 1)
                 ELSE TrueDiv(valid_ranges[i][2], 1)
    IN  IF t.raised THEN Ret(Repeat(None, count))
        ELSE Ret([i \in 1..Len(t.value) |-> clamp(i)])

\* read_vsd_data_batch: the try block, and the except clause that replaces
\* any exception by [None] * count
read_vsd_data_batch(unit_id_, count, scaling_factors, valid_ranges, response) ==
    LET t == BatchTry(count, scaling_factors, valid_ranges, response)
    IN  IF t.raised THEN Ret(Repeat(None, count)) ELSE t

\* the three labels of read_vsd_status, or an IndexError on a short vector
StatusLabels(bits, fault, normal, alarm) ==
    IF Len(bits) < 8 THEN Raise
    ELSE Ret(<<IF At(bits, 2) THEN Str("RUN") ELSE Str("STOP"),
               IF At(bits, 3) THEN Str(fault) ELSE Str(normal),
               IF At(bits, 7) THEN Str(alarm) ELSE Str(normal)>>)

\* seeded bug: the fault flag is taken from bit 4
StatusWrongBit(response) ==
    IF response.kind # "ok" \/ Len(response.bits) < 8
    THEN Ret(<<None, None, None>>)
    ELSE Ret(<<IF At(response.bits, 2) THEN Str("RUN") ELSE Str("STOP"),
               IF At(response.bits, 4) THEN Str("FAULT") ELSE Str("NORMAL"),
               IF At(response.bits, 7) THEN Str("ALARM") ELSE Str("NORMAL")>>)

\* read_vsd_status of vsd_monitoring_logging.py
read_vsd_status_logging(response) ==
    LET t == IF response.kind = "exception" THEN Raise
             ELSE IF response.kind = "error" THEN Ret(<<None, None, None>>)
             ELSE StatusLabels(response.bits, "FAULT", "NORMAL", "ALARM")
    IN  IF t.raised THEN Ret(<<None, None, None>>) ELSE t

\* read_vsd_status of read_drive_temp_vsd_g3_ver13.py
read_vsd_status_ver13(response) ==
    LET t == IF response.kind = "exception" THEN Raise
             ELSE IF response.kind = "error" THEN Ret(<<None, None, None>>)
             ELSE StatusLabels(response.bits, "FAULT", "NORMAL", "ALARM")
    IN  IF t.raised THEN Ret(<<None, None, None>>) ELSE t

\* read_vsd_status of vsd_g3_read_ver12.py: three RUN/STOP labels, and
\* [None] * count on failure
read_vsd_status_ver12(response, count) ==
    LET t == IF response.kind = "exception" THEN Raise
             ELSE IF response.kind = "error" THEN Ret(Repeat(None, count))
             ELSE StatusLabels(response.bits, "RUN", "STOP", "RUN")
    IN  IF t.raised THEN Ret(Repeat(None, count)) ELSE t

----------------------------------------------------------------------------
(* The fleet behind the client.  Register and input contents depend on the  *)
(* unit and on the cycle, so that columns and cycles can be told apart.  On *)
(* the test bench register 40103 of unit 1 holds 4500.                      *)

DeviceRegister(u, cyc, address) ==
    CASE address = 102 -> IF site = "bench" /\ u = 1 THEN 4500 ELSE 100 * u + 10 * cyc
      [] address = 103 -> 10 * (u - 1)
      [] address = 104 -> 20 * u
      [] address = 109 -> 400 + 10 * u + cyc
      [] OTHER -> 0

DeviceInput(u, cyc, address) ==
    CASE address = 2 -> u % 2 = 1
      [] address = 3 -> cyc % 2 = 0
      [] address = 5 -> u = 1
      [] address = 6 -> cyc % 2 = 1
      [] address = 7 -> u = 2
      [] address = 10 -> TRUE
      [] OTHER -> FALSE

RegisterFaults == {"error", "exception", "short", "long", "range"}

InputFaults == {"error", "exception"}

\* what read_holding_registers(address, count, slave=u) answers under fault fk
RegisterResponse(u, cyc, address, count, fk) ==
    LET regs(n) == [i \in 1..n |-> DeviceRegister(u, cyc, address + i - 1)]
    IN  CASE fk = "error" -> ErrResp
          [] fk = "exception" -> ExcResp
          [] fk = "short" -> RegResp(regs(count - 1))
          [] fk = "long" -> RegResp(regs(count + 1))
          [] fk = "range" -> RegResp([regs(count) EXCEPT ![1] = 65535])
          [] OTHER -> RegResp(regs(count))

\* what read_discrete_inputs(address, count=8, slave=u) answers under fault fk
InputResponse(u, cyc, address, fk) ==
    CASE fk = "error" -> ErrResp
      [] fk = "exception" -> ExcResp
      [] OTHER -> BitResp([i \in 1..8 |-> DeviceInput(u, cyc, address + i - 1)])

----------------------------------------------------------------------------
(* The SQLite file.                                                         *)

NoTables == [t \in {} |-> 0]

\* a table as CREATE TABLE leaves it: id, date, time, then one column per
\* unit of the registry, all of the given type
EmptyTable(coltype) ==
    [coltype |-> coltype,
     columns |-> <<"id", "date", "time">> \o VSD_NAMES,
     rows |-> <<>>]

\* the tables and column types each variant's initialize_database creates
Schema(v) ==
    CASE v = "logging" ->
           [t \in {"vsd_temp", "vsd_current", "vsd_freq",
                   "vsd_run", "vsd_fault", "vsd_alarm"} |->
               IF t \in {"vsd_temp", "vsd_current", "vsd_freq"} THEN "REAL" ELSE "TEXT"]
      [] v = "ver13" ->
           [t \in {"vsd_temp", "vsd_current", "vsd_freq", "vsd_run_stop",
                   "vsd_fault_normal", "vsd_alarm_normal"} |-> "TEXT"]
      [] OTHER ->
           [t \in {"vsd_temp", "vsd_current", "vsd_freq"} |-> "REAL"]

\* the CREATE TABLE statements of initialize_database, in the order of the
\* source; each takes effect on the file as it is executed
CreateTables(v) ==
    CASE v = "logging" ->
           <<"vsd_temp", "vsd_current", "vsd_freq", "vsd_run", "vsd_fault", "vsd_alarm">>
      [] v = "ver13" ->
           <<"vsd_temp", "vsd_current", "vsd_freq", "vsd_run_stop",
             "vsd_fault_normal", "vsd_alarm_normal">>
      [] OTHER ->
           <<"vsd_temp", "vsd_current", "vsd_freq">>

\* seeded bug: DROP TABLE and CREATE TABLE, an existing table is emptied
CreateTableRecreates(d, t, coltype) ==
    [x \in DOMAIN d \cup {t} |-> IF x = t THEN EmptyTable(coltype) ELSE d[x]]

\* CREATE TABLE IF NOT EXISTS t
create_table(d, t, coltype) ==
    [x \in DOMAIN d \cup {t} |-> IF x \in DOMAIN d THEN d[x] ELSE EmptyTable(coltype)]

\* the file after the statements i.. of initialize_database
RECURSIVE CreateFrom(_, _, _)
CreateFrom(d, v, i) ==
    IF i > Len(CreateTables(v)) THEN d
    ELSE CreateFrom(create_table(d, CreateTables(v)[i], Schema(v)[CreateTables(v)[i]]),
                    v, i + 1)

\* initialize_database run from its first statement to its last
initialize_database(d, v) == CreateFrom(d, v, 1)

\* column affinity: a float bound to a TEXT column is stored as its text
Affinity(coltype, v) ==
    IF coltype = "TEXT" /\ v.tag = "float" THEN [v EXCEPT !.tag = "text"] ELSE v

\* seeded bug: the row replaces the newest row of the table
SaveReplacesNewest(d, table_name, date, time, values, fail) ==
    IF fail \/ table_name \notin DOMAIN d \/ Len(values) # TOTAL_UNITS THEN Raise
    ELSE LET n == IF d[table_name].rows = <<>> THEN 1 ELSE Len(d[table_name].rows)
             row == [id |-> n, date |-> date, time |-> time,
                     values |-> [i \in 1..Len(values) |->
                                    Affinity(d[table_name].coltype, values[i])]]
         IN  Ret([d EXCEPT ![table_name].rows =
                     IF @ = <<>> THEN <<row>> ELSE [@ EXCEPT ![n] = row]])

\* save_to_database: INSERT of one row; raises when sqlite3 fails (fail), when
\* the table does not exist, or when the number of bindings is not 2 + TOTAL_UNITS
save_to_database(d, table_name, date, time, values, fail) ==
    IF fail THEN Raise
    ELSE IF table_name \notin DOMAIN d THEN Raise
    ELSE IF Len(values) # TOTAL_UNITS THEN Raise
    ELSE Ret([d EXCEPT ![table_name].rows = Append(@,
                 [id |-> Len(@) + 1, date |-> date, time |-> time,
                  values |-> [i \in 1..Len(values) |->
                                 Affinity(d[table_name].coltype, values[i])]])])

\* the first n elements of rows taken from the end backwards
RECURSIVE Newest(_, _)
Newest(rows, n) ==
    IF n = 0 \/ rows = <<>> THEN <<>>
    ELSE <<rows[Len(rows)]>> \o Newest(SubSeq(rows, 1, Len(rows) - 1), n - 1)

\* seeded bug: ORDER BY id ASC, the oldest rows first
FetchOldestFirst(d, table_name) ==
    IF table_name \notin DOMAIN d THEN Raise
    ELSE Ret([rows |-> SubSeq(d[table_name].rows, 1,
                              IF Len(d[table_name].rows) < 10
                              THEN Len(d[table_name].rows) ELSE 10),
              column_names |-> d[table_name].columns])

\* web_display.fetch_data_from_table: SELECT * ... ORDER BY id DESC LIMIT 10,
\* and the column names of cursor.description; raises when the table does
\* not exist
fetch_data_from_table(d, table_name) ==
    IF table_name \notin DOMAIN d THEN Raise
    ELSE Ret([rows |-> Newest(d[table_name].rows, 10),
              column_names |-> d[table_name].columns])

\* the save_to_database calls of one cycle, in order: table and list
SaveCalls(v) ==
    CASE v = "logging" ->
           <<<<"vsd_temp", "temperatures">>, <<"vsd_current", "currents">>,
             <<"vsd_freq", "frequencies">>, <<"vsd_run", "run_status">>,
             <<"vsd_fault", "fault_status">>, <<"vsd_alarm", "alarm_status">>>>
      [] v = "ver13" ->
           <<<<"vsd_run", "run_status">>, <<"vsd_fault", "fault_status">>,
             <<"vsd_alarm", "alarm_status">>, <<"vsd_temp", "temperatures">>,
             <<"vsd_current", "currents">>, <<"vsd_frequency", "frequencies">>>>
      [] OTHER ->
           <<<<"vsd_temp", "temperatures">>, <<"vsd_current", "currents">>,
             <<"vsd_freq", "frequencies">>>>

----------------------------------------------------------------------------
(* main(): the lists of one cycle and what each step of the unit loop does  *)
(* to them.                                                                 *)

EmptyAcc == [temperatures |-> <<>>, currents |-> <<>>, frequencies |-> <<>>,
             run_status |-> <<>>, fault_status |-> <<>>, alarm_status |-> <<>>,
             statuses |-> <<>>]

EmptyTwin == [acc |-> EmptyAcc, temperature |-> <<>>, current |-> <<>>]

SF8 == <<10, 10, 10, 10, 10, 10, 10, 10>>

VR8 == <<<<0, 50>>, <<0, 200>>, <<-50, 100>>, <<-50, 100>>, <<-50, 100>>,
         <<-50, 100>>, <<-50, 100>>, <<-50, 100>>>>

\* now.strftime("%Y-%m-%d") and now.strftime("%H:%M") of a clock in seconds
Stamp(t) == [date |-> t \div 86400, time |-> (t % 86400) \div 60]

\* seeded bug: an invalid value is not appended, the later columns shift left
AfterBatchDropsInvalid(a, r) ==
    IF r.raised THEN RaiseWith(a)
    ELSE IF Len(r.value) < 8 THEN RaiseWith(a)
    ELSE LET add(l, v) == IF v = None THEN l ELSE Append(l, v)
         IN  Ret([a EXCEPT !.frequencies = add(@, At(r.value, 0)),
                           !.currents = add(@, At(r.value, 1)),
                           !.temperatures = add(@, At(r.value, 7))])

\* seeded bug: "values[i] or 0", an invalid value becomes the number 0
AfterBatchZeroFill(a, r) ==
    IF r.raised THEN RaiseWith(a)
    ELSE IF Len(r.value) < 8 THEN RaiseWith(a)
    ELSE LET z(v) == IF v = None THEN TrueDiv(0, 10) ELSE v
         IN  Ret([a EXCEPT !.frequencies = Append(@, z(At(r.value, 0))),
                           !.currents = Append(@, z(At(r.value, 1))),
                           !.temperatures = Append(@, z(At(r.value, 7)))])

\* logging/ver12: values[0], values[1], values[7] are taken (IndexError
\* before anything is appended) and appended to the lists
AfterBatch(a, r) ==
    IF r.raised THEN RaiseWith(a)
    ELSE IF Len(r.value) < 8 THEN RaiseWith(a)
    ELSE Ret([a EXCEPT !.frequencies = Append(@, At(r.value, 0)),
                       !.currents = Append(@, At(r.value, 1)),
                       !.temperatures = Append(@, At(r.value, 7))])

\* status[0], status[1], status[2] appended one after the other: an
\* IndexError leaves the appends made before it
StatusAppends(a, status) ==
    LET a1 == [a EXCEPT !.run_status = Append(@, At(status, 0))]
        a2 == [a1 EXCEPT !.fault_status = Append(@, At(status, 1))]
        a3 == [a2 EXCEPT !.alarm_status = Append(@, At(status, 2))]
    IN  IF Len(status) = 0 THEN RaiseWith(a)
        ELSE IF Len(status) = 1 THEN RaiseWith(a1)
        ELSE IF Len(status) = 2 THEN RaiseWith(a2)
        ELSE Ret(a3)

\* logging: status[0], status[1], status[2] appended to the lists
AfterStatusLogging(a, r) ==
    IF r.raised THEN RaiseWith(a) ELSE StatusAppends(a, r.value)

\* ver12: the whole status list appended
AfterStatusVer12(a, r) ==
    IF r.raised THEN RaiseWith(a)
    ELSE Ret([a EXCEPT !.statuses = Append(@, r.value)])

\* ver13: "if status:" then the three labels, else three "Error"
AfterStatusVer13(a, r) ==
    IF r.raised THEN RaiseWith(a)
    ELSE IF Len(r.value) = 0
         THEN Ret([a EXCEPT !.run_status = Append(@, Str("Error")),
                            !.fault_status = Append(@, Str("Error")),
                            !.alarm_status = Append(@, Str("Error"))])
    ELSE StatusAppends(a, r.value)

\* ver13: x[0] if x[0] is not None else "Error"
OrError(x) == IF At(x, 0) # None THEN At(x, 0) ELSE Str("Error")

\* ver13: the three appends after the frequency read, one after the other:
\* the IndexError of an empty result leaves the appends made before it
AfterReadingsVer13(a, temperature_, current_, r) ==
    LET a1 == [a EXCEPT !.temperatures = Append(@, OrError(temperature_))]
        a2 == [a1 EXCEPT !.currents = Append(@, OrError(current_))]
        a3 == [a2 EXCEPT !.frequencies = Append(@, OrError(r.value))]
    IN  IF r.raised THEN RaiseWith(a)
        ELSE IF Len(temperature_) = 0 THEN RaiseWith(a)
        ELSE IF Len(current_) = 0 THEN RaiseWith(a1)
        ELSE IF Len(r.value) = 0 THEN RaiseWith(a2)
        ELSE Ret(a3)

----------------------------------------------------------------------------
(* State machine of main().                                                 *)
(* pc: "start"   before initialize_database                                 *)
(*     "loop"    at "while True:"                                           *)
(*     "batch"   logging/ver12: before the register read of unit_id         *)
(*     "status"  before the discrete-input read of unit_id                  *)
(*     "temp", "current", "freq"   ver13: before that register read         *)
(*     "save"    before the save_idx-th save_to_database call               *)
(*     "sleep"   before asyncio.sleep(READ_INTERVAL)                        *)
(*     "crashed" an exception left main(): the process has terminated       *)

NoCall == [fn |-> "none", unit |-> 0, count |-> 0, scaling_factors |-> <<>>,
           valid_ranges |-> <<>>, response |-> ErrResp, ret |-> Ret(<<>>)]

BatchCall(u, count, sf, vr, resp) ==
    [fn |-> "batch", unit |-> u, count |-> count, scaling_factors |-> sf,
     valid_ranges |-> vr, response |-> resp,
     ret |-> read_vsd_data_batch(u, count, sf, vr, resp)]

\* the status read of the running variant (ver12 is called with count = 1 by main)
StatusRet(v, resp, count) ==
    CASE v = "logging" -> read_vsd_status_logging(resp)
      [] v = "ver13" -> read_vsd_status_ver13(resp)
      [] OTHER -> read_vsd_status_ver12(resp, count)

StatusCall(v, u, resp, count) ==
    [fn |-> "status", unit |-> u, count |-> count, scaling_factors |-> <<>>,
     valid_ranges |-> <<>>, response |-> resp, ret |-> StatusRet(v, resp, count)]

\* zero-based address of the discrete inputs each variant reads
StatusAddress(v) == IF v = "ver13" THEN 10004 - 10001 ELSE 0

\* the dashboard has not been asked for anything yet
NoFetch == [table |-> "", raised |-> FALSE, rows |-> <<>>, column_names |-> <<>>]

\* The database file is shared by the three scripts (same directory, same
\* name): it is either absent or was created by an earlier run of the
\* logging script.
InitProcess ==
    /\ variant \in Variants
    /\ pc = "start"
    /\ unit_id = 0
    /\ acc = EmptyAcc
    /\ temperature = <<>>
    /\ current = <<>>
    /\ cycle = 0
    /\ save_idx = 0
    /\ create_idx = 1
    /\ db \in {NoTables, initialize_database(NoTables, "logging")}
    /\ calls = <<>>
    /\ heard = <<>>
    /\ faults = 0
    /\ slept = 0
    /\ last = NoCall
    /\ twin = EmptyTwin
    /\ fetched = NoFetch
    /\ awaiting = FALSE
    /\ inflight = 0

\* the plant's fleet, the clock starting at the epoch of the model
InitCommon ==
    /\ InitProcess
    /\ stamp = Stamp(0)
    /\ clock = 0
    /\ site = "plant"

Init == InitCommon /\ failUnit = 0

\* the test bench, the script started at 10:00 of the day the model counts
\* days from (2024-01-01)
InitScenario ==
    /\ InitProcess
    /\ failUnit = 0
    /\ stamp = Stamp(0)
    /\ clock = 10 * 3600
    /\ site = "bench"

\* seeded bug: the request is sent as a task of its own and main() goes on
SendWithoutWaiting ==
    /\ ~awaiting
    /\ inflight < 2
    /\ awaiting' = awaiting
    /\ inflight' = inflight + 1

\* "await client.read_...": the request goes out and main() is suspended
\* until the response arrives
Send ==
    /\ ~awaiting
    /\ awaiting' = TRUE
    /\ inflight' = inflight + 1

\* the response (or the exception) arrives and main() resumes
Receive ==
    /\ awaiting
    /\ awaiting' = FALSE
    /\ inflight' = inflight - 1

\* a fault may be injected while the budget lasts
Inject(fk) ==
    /\ fk # "none" => faults < MaxFaults
    /\ faults' = IF fk = "none" THEN faults ELSE faults + 1

Hear(read, fk, resp) ==
    heard' = Append(heard, [unit |-> unit_id, read |-> read, fk |-> fk,
                            response |-> resp])

\* where control goes when an exception reaches main's loop body: ver13
\* catches it and starts the next iteration, the others terminate
OnException(v) == IF v = "ver13" THEN "loop" ELSE "crashed"

\* seeded bug: the two orders are exchanged
FirstReadSwapped(v) == IF v = "ver13" THEN "batch" ELSE "status"

\* the first read of a unit: ver13 begins with the status (l.130), logging
\* and ver12 with the register batch (l.196, l.170)
FirstRead(v) == IF v = "ver13" THEN "status" ELSE "batch"

\* end of one iteration of the unit loop
NextUnit ==
    IF unit_id < TOTAL_UNITS
    THEN /\ unit_id' = unit_id + 1
         /\ pc' = FirstRead(variant)
         /\ save_idx' = save_idx
    ELSE /\ unit_id' = unit_id
         /\ pc' = "save"
         /\ save_idx' = 1

\* one CREATE TABLE IF NOT EXISTS of initialize_database; after the last one
\* main() goes on to the loop
InitializeDatabase ==
    /\ pc = "start"
    /\ LET t == CreateTables(variant)[create_idx]
       IN  db' = create_table(db, t, Schema(variant)[t])
    /\ create_idx' = create_idx + 1
    /\ pc' = IF create_idx < Len(CreateTables(variant)) THEN "start" ELSE "loop"
    /\ UNCHANGED <<variant, unit_id, acc, temperature, current, stamp, clock, cycle,
                   save_idx, calls, heard, faults, slept, last, failUnit, twin, fetched, site,
                   awaiting, inflight>>

\* seeded bug: the lists are created once, before the loop, and keep growing
BeginCycleKeepsLists ==
    /\ pc = "loop"
    /\ cycle < MaxCycles
    /\ cycle' = cycle + 1
    /\ stamp' = Stamp(clock)
    /\ acc' = acc
    /\ twin' = EmptyTwin
    /\ calls' = <<>>
    /\ heard' = <<>>
    /\ unit_id' = 1
    /\ pc' = FirstRead(variant)
    /\ UNCHANGED <<variant, temperature, current, clock, save_idx, db, faults,
                   slept, last, failUnit, fetched, site, create_idx, awaiting, inflight>>

\* top of "while True": the timestamp is taken and the lists are emptied
BeginCycle ==
    /\ pc = "loop"
    /\ cycle < MaxCycles
    /\ cycle' = cycle + 1
    /\ stamp' = Stamp(clock)
    /\ acc' = EmptyAcc
    /\ twin' = EmptyTwin
    /\ calls' = <<>>
    /\ heard' = <<>>
    /\ unit_id' = 1
    /\ pc' = FirstRead(variant)
    /\ UNCHANGED <<variant, temperature, current, clock, save_idx, db, faults,
                   slept, last, failUnit, fetched, site, create_idx,
                   awaiting, inflight>>

\* logging 196-206, ver12 170-181: the batch read of 8 registers from 40103
ReadBatchOn(fk) ==
    /\ pc = "batch"
    /\ Receive
    /\ variant \in {"logging", "ver12"}
    /\ Inject(fk)
    /\ LET resp == RegisterResponse(unit_id, cycle, 40103 - 40001, 8, fk)
           call == BatchCall(unit_id, 8, SF8, VR8, resp)
           a == AfterBatch(acc, call.ret)
       IN  /\ last' = call
           /\ Hear("batch", fk, resp)
           /\ acc' = a.value
           /\ pc' = IF a.raised THEN OnException(variant) ELSE "status"
    /\ clock' = clock + ReadSeconds
    /\ UNCHANGED <<variant, unit_id, temperature, current, stamp, cycle, save_idx,
                   db, calls, slept, failUnit, fetched, site, create_idx>>

\* logging 209-212, ver12 184-185, ver13 130-138: the status read
ReadStatusOn(fk) ==
    /\ pc = "status"
    /\ Receive
    /\ Inject(fk)
    /\ LET resp == InputResponse(unit_id, cycle, StatusAddress(variant), fk)
           call == StatusCall(variant, unit_id, resp, 1)
           a == CASE variant = "logging" -> AfterStatusLogging(acc, call.ret)
                  [] variant = "ver13" -> AfterStatusVer13(acc, call.ret)
                  [] OTHER -> AfterStatusVer12(acc, call.ret)
       IN  /\ last' = call
           /\ Hear("status", fk, resp)
           /\ acc' = a.value
           /\ IF a.raised
              THEN /\ pc' = OnException(variant)
                   /\ UNCHANGED <<unit_id, save_idx>>
              ELSE IF variant = "ver13"
                   THEN pc' = "temp" /\ UNCHANGED <<unit_id, save_idx>>
                   ELSE NextUnit
    /\ clock' = clock + ReadSeconds
    /\ UNCHANGED <<variant, temperature, current, stamp, cycle, db, calls, slept,
                   failUnit, fetched, site, create_idx>>

\* ver13 141-144: the temperature read
ReadTemperatureOn(fk) ==
    /\ pc = "temp"
    /\ Receive
    /\ Inject(fk)
    /\ LET resp == RegisterResponse(unit_id, cycle, 40103 - 40001, 1, fk)
           call == BatchCall(unit_id, 1, <<100>>, <<<<-50, 100>>>>, resp)
       IN  /\ last' = call
           /\ Hear("temperature", fk, resp)
           /\ IF call.ret.raised
              THEN pc' = OnException(variant) /\ temperature' = temperature
              ELSE pc' = "current" /\ temperature' = call.ret.value
    /\ clock' = clock + ReadSeconds
    /\ UNCHANGED <<variant, unit_id, acc, current, stamp, cycle, save_idx, db,
                   calls, slept, failUnit, fetched, site, create_idx>>

\* ver13 145-148: the current read
ReadCurrentOn(fk) ==
    /\ pc = "current"
    /\ Receive
    /\ Inject(fk)
    /\ LET resp == RegisterResponse(unit_id, cycle, 40104 - 40001, 1, fk)
           call == BatchCall(unit_id, 1, <<100>>, <<<<0, 200>>>>, resp)
       IN  /\ last' = call
           /\ Hear("current", fk, resp)
           /\ IF call.ret.raised
              THEN pc' = OnException(variant) /\ current' = current
              ELSE pc' = "freq" /\ current' = call.ret.value
    /\ clock' = clock + ReadSeconds
    /\ UNCHANGED <<variant, unit_id, acc, temperature, stamp, cycle, save_idx, db,
                   calls, slept, failUnit, fetched, site, create_idx>>

\* ver13 149-156: the frequency read and the three appends
ReadFrequencyOn(fk) ==
    /\ pc = "freq"
    /\ Receive
    /\ Inject(fk)
    /\ LET resp == RegisterResponse(unit_id, cycle, 40105 - 40001, 1, fk)
           call == BatchCall(unit_id, 1, <<100>>, <<<<0, 50>>>>, resp)
           a == AfterReadingsVer13(acc, temperature, current, call.ret)
       IN  /\ last' = call
           /\ Hear("frequency", fk, resp)
           /\ acc' = a.value
           /\ IF a.raised
              THEN /\ pc' = OnException(variant)
                   /\ UNCHANGED <<unit_id, save_idx>>
              ELSE NextUnit
    /\ clock' = clock + ReadSeconds
    /\ UNCHANGED <<variant, temperature, current, stamp, cycle, db, calls, slept,
                   failUnit, fetched, site, create_idx>>

\* the request of the read main() has arrived at is sent
Issue ==
    /\ pc \in {"batch", "status", "temp", "current", "freq"}
    /\ Send
    /\ UNCHANGED <<variant, pc, unit_id, acc, temperature, current, stamp, clock,
                   cycle, save_idx, db, calls, heard, faults, slept, last, failUnit,
                   twin, fetched, site, create_idx>>

ReadBatch == \E fk \in RegisterFaults \cup {"none"} :
    ReadBatchOn(fk) /\ UNCHANGED twin

ReadStatus == \E fk \in InputFaults \cup {"none"} :
    ReadStatusOn(fk) /\ UNCHANGED twin

ReadTemperature == \E fk \in RegisterFaults \cup {"none"} :
    ReadTemperatureOn(fk) /\ UNCHANGED twin

ReadCurrent == \E fk \in RegisterFaults \cup {"none"} :
    ReadCurrentOn(fk) /\ UNCHANGED twin

ReadFrequency == \E fk \in RegisterFaults \cup {"none"} :
    ReadFrequencyOn(fk) /\ UNCHANGED twin

\* seeded bug: the row is stamped with the time of the save
SaveRowStampsLate(c, fail) ==
    save_to_database(db, c[1], Stamp(clock).date, Stamp(clock).time, acc[c[2]], fail)

\* save_to_database(table, date, time_str, list) as main() calls it
SaveRow(c, fail) ==
    save_to_database(db, c[1], stamp.date, stamp.time, acc[c[2]], fail)

\* one save_to_database call of the cycle; an exception skips the rest of the
\* loop body
Save ==
    /\ pc = "save"
    /\ \E fail \in BOOLEAN :
        /\ Inject(IF fail THEN "store" ELSE "none")
        /\ LET c == SaveCalls(variant)[save_idx]
               r == SaveRow(c, fail)
           IN  /\ calls' = Append(calls, [table |-> c[1], values |-> acc[c[2]],
                                          ok |-> ~r.raised])
               /\ IF r.raised
                  THEN /\ pc' = OnException(variant)
                       /\ UNCHANGED <<db, save_idx>>
                  ELSE /\ db' = r.value
                       /\ IF save_idx < Len(SaveCalls(variant))
                          THEN pc' = "save" /\ save_idx' = save_idx + 1
                          ELSE pc' = "sleep" /\ save_idx' = save_idx
    /\ UNCHANGED <<variant, unit_id, acc, temperature, current, stamp, clock, cycle,
                   heard, slept, last, failUnit, twin, fetched, site, create_idx,
                   awaiting, inflight>>

\* await asyncio.sleep(READ_INTERVAL), then back to "while True"
Sleep ==
    /\ pc = "sleep"
    /\ clock' = clock + READ_INTERVAL
    /\ slept' = slept + 1
    /\ pc' = "loop"
    /\ UNCHANGED <<variant, unit_id, acc, temperature, current, stamp, cycle,
                   save_idx, db, calls, heard, faults, last, failUnit, twin, fetched, site,
                   create_idx,
                   awaiting, inflight>>

Next ==
    \/ InitializeDatabase
    \/ BeginCycle
    \/ Issue
    \/ ReadBatch
    \/ ReadStatus
    \/ ReadTemperature
    \/ ReadCurrent
    \/ ReadFrequency
    \/ Save
    \/ Sleep

Spec == Init /\ [][Next]_vars

SpecScenario == InitScenario /\ [][Next]_vars

----------------------------------------------------------------------------
(* The database file outlives the process: the script is stopped and        *)
(* started again, and the dashboard reads the file while the script runs.   *)

\* the script is stopped while it sleeps between two cycles or in the middle
\* of initialize_database (or has terminated on an exception) and is started
\* again: main() begins anew on the same file
Restart ==
    /\ pc \in {"sleep", "crashed"} \/ (pc = "start" /\ create_idx > 1)
    /\ cycle < MaxCycles
    /\ pc' = "start"
    /\ create_idx' = 1
    /\ last' = NoCall
    /\ unit_id' = 0
    /\ acc' = EmptyAcc
    /\ temperature' = <<>>
    /\ current' = <<>>
    /\ save_idx' = 0
    /\ calls' = <<>>
    /\ heard' = <<>>
    /\ UNCHANGED <<variant, stamp, clock, cycle, db, faults, slept, failUnit, twin,
                   fetched, site, awaiting, inflight>>

NextRestart ==
    \/ Next
    \/ Restart

SpecRestart == Init /\ [][NextRestart]_vars

\* the tables the dashboard's dropdown offers (web_display.py l.37)
DashTables == {"vsd_temp", "vsd_current"}

\* one request to the dashboard.  The file changes only where main() calls the
\* store, so the request is served before or after one of these calls.
Fetch ==
    /\ fetched = NoFetch
    /\ pc \in {"start", "save", "sleep", "crashed"}
    /\ \E table_name \in DashTables :
        LET r == fetch_data_from_table(db, table_name)
        IN  fetched' = IF r.raised
                       THEN [table |-> table_name, raised |-> TRUE, rows |-> <<>>,
                             column_names |-> <<>>]
                       ELSE [table |-> table_name, raised |-> FALSE,
                             rows |-> r.value.rows,
                             column_names |-> r.value.column_names]
    /\ UNCHANGED <<variant, pc, unit_id, acc, temperature, current, stamp, clock,
                   cycle, save_idx, db, calls, heard, faults, slept, last, failUnit,
                   twin, site, create_idx, awaiting, inflight>>

\* The dashboard is a process of its own (app.run) that holds no lock on the
\* file: a request is served at any moment of the script's run, and the
\* script goes on whatever the dashboard does.  fetched records the page of
\* one request; the requests before and after it change nothing.
NextDash ==
    \/ Next
    \/ Fetch

\* The dashboard beside a script that stores rows: logging and ver12 start
\* without a file, ver13 on the file the logging script has created (on a
\* file of its own every save_to_database of ver13's cycle before vsd_temp
\* fails, and no row is ever stored).
InitDash ==
    /\ InitCommon
    /\ failUnit = 0
    /\ db = IF variant = "ver13" THEN initialize_database(NoTables, "logging")
            ELSE NoTables

SpecDash == InitDash /\ [][NextDash]_vars

\* The dashboard asked after a long run.  The file is what n cycles of main()
\* leave in it: cycle k is stamped with the clock k * READ_INTERVAL, every
\* unit is read from the device of cycle k, unit 1's batch read is answered
\* by an error response in the cycles k with k % 3 = gap, and every status
\* read and every save succeeds.
\* the element of a one-element set: names a value that has been computed
TheOne(S) == CHOOSE x \in S : TRUE

HistoryFault(u, k, gap) == IF u = 1 /\ k % 3 = gap THEN "error" ELSE "none"

\* the lists of cycle k once the units 1..u have been read
RECURSIVE HistoryLists(_, _, _, _)
HistoryLists(v, k, gap, u) ==
    IF u = 0 THEN EmptyAcc
    ELSE LET resp == RegisterResponse(u, k, 40103 - 40001, 8, HistoryFault(u, k, gap))
             b == AfterBatch(HistoryLists(v, k, gap, u - 1),
                             read_vsd_data_batch(u, 8, SF8, VR8, resp)).value
             st == StatusRet(v, InputResponse(u, k, StatusAddress(v), "none"), 1)
         IN  IF v = "logging" THEN AfterStatusLogging(b, st).value
             ELSE AfterStatusVer12(b, st).value

\* the file after the save_to_database calls i.. of a cycle with the lists a
RECURSIVE HistorySaves(_, _, _, _, _)
HistorySaves(d, v, st, a, i) ==
    IF i > Len(SaveCalls(v)) THEN d
    ELSE TheOne({HistorySaves(saved, v, st, a, i + 1) :
                    saved \in {save_to_database(d, SaveCalls(v)[i][1], st.date,
                                                st.time, a[SaveCalls(v)[i][2]],
                                                FALSE).value}})

RECURSIVE History(_, _, _)
History(v, n, gap) ==
    IF n = 0 THEN initialize_database(NoTables, v)
    ELSE TheOne({HistorySaves(d, v, Stamp(n * READ_INTERVAL), a, 1) :
                    d \in {History(v, n - 1, gap)},
                    a \in {HistoryLists(v, n, gap, TOTAL_UNITS)}})

\* the script has been stopped after n cycles and is about to be started again
InitFetch ==
    /\ variant \in {"logging", "ver12"}
    /\ pc = "start"
    /\ unit_id = 0
    /\ acc = EmptyAcc
    /\ temperature = <<>>
    /\ current = <<>>
    /\ save_idx = 0
    /\ calls = <<>>
    /\ heard = <<>>
    /\ faults = 0
    /\ last = NoCall
    /\ twin = EmptyTwin
    /\ fetched = NoFetch
    /\ awaiting = FALSE
    /\ inflight = 0
    /\ create_idx = 1
    /\ failUnit = 0
    /\ site = "plant"
    /\ \E n \in 0..MaxRows, gap \in 0..2 :
        /\ cycle = n
        /\ slept = n
        /\ clock = n * READ_INTERVAL
        /\ stamp = Stamp(n * READ_INTERVAL)
        /\ db = History(variant, n, gap)

NextFetch == Fetch

SpecFetch == InitFetch /\ [][NextFetch]_vars

----------------------------------------------------------------------------
(* Isolation experiment: the twin run receives the same responses as the    *)
(* run above, except that every read of unit failUnit fails.  Both runs     *)
(* execute the same code on their own lists.                                *)

FailResp(ffk) == IF ffk = "error" THEN ErrResp ELSE ExcResp

TwinResp(resp, ffk) == IF unit_id = failUnit THEN FailResp(ffk) ELSE resp

InitIso == InitCommon /\ failUnit \in 1..TOTAL_UNITS

IsoReadBatch == \E fk \in RegisterFaults \cup {"none"}, ffk \in InputFaults :
    /\ ReadBatchOn(fk)
    /\ LET resp == TwinResp(RegisterResponse(unit_id, cycle, 40103 - 40001, 8, fk), ffk)
           a == AfterBatch(twin.acc, read_vsd_data_batch(unit_id, 8, SF8, VR8, resp))
       IN  twin' = [twin EXCEPT !.acc = a.value]

IsoReadStatus == \E fk \in InputFaults \cup {"none"}, ffk \in InputFaults :
    /\ ReadStatusOn(fk)
    /\ LET resp == TwinResp(InputResponse(unit_id, cycle, StatusAddress(variant), fk), ffk)
           r == StatusRet(variant, resp, 1)
           a == CASE variant = "logging" -> AfterStatusLogging(twin.acc, r)
                  [] variant = "ver13" -> AfterStatusVer13(twin.acc, r)
                  [] OTHER -> AfterStatusVer12(twin.acc, r)
       IN  twin' = [twin EXCEPT !.acc = a.value]

IsoReadTemperature == \E fk \in RegisterFaults \cup {"none"}, ffk \in InputFaults :
    /\ ReadTemperatureOn(fk)
    /\ LET resp == TwinResp(RegisterResponse(unit_id, cycle, 40103 - 40001, 1, fk), ffk)
           r == read_vsd_data_batch(unit_id, 1, <<100>>, <<<<-50, 100>>>>, resp)
       IN  twin' = IF r.raised THEN twin ELSE [twin EXCEPT !.temperature = r.value]

IsoReadCurrent == \E fk \in RegisterFaults \cup {"none"}, ffk \in InputFaults :
    /\ ReadCurrentOn(fk)
    /\ LET resp == TwinResp(RegisterResponse(unit_id, cycle, 40104 - 40001, 1, fk), ffk)
           r == read_vsd_data_batch(unit_id, 1, <<100>>, <<<<0, 200>>>>, resp)
       IN  twin' = IF r.raised THEN twin ELSE [twin EXCEPT !.current = r.value]

IsoReadFrequency == \E fk \in RegisterFaults \cup {"none"}, ffk \in InputFaults :
    /\ ReadFrequencyOn(fk)
    /\ LET resp == TwinResp(RegisterResponse(unit_id, cycle, 40105 - 40001, 1, fk), ffk)
           r == read_vsd_data_batch(unit_id, 1, <<100>>, <<<<0, 50>>>>, resp)
           a == AfterReadingsVer13(twin.acc, twin.temperature, twin.current, r)
       IN  twin' = [twin EXCEPT !.acc = a.value]

NextIso ==
    \/ InitializeDatabase
    \/ BeginCycle
    \/ Issue
    \/ IsoReadBatch
    \/ IsoReadStatus
    \/ IsoReadTemperature
    \/ IsoReadCurrent
    \/ IsoReadFrequency

SpecIso == InitIso /\ [][NextIso]_vars

----------------------------------------------------------------------------
(* The two readers as functions: one call per behaviour, over bounded        *)
(* arguments.                                                               *)

RawValues == {0, 500, 4567, 15000}

Divisors == {0, 10, 100}

Ranges == {<<0, 50>>, <<-50, 100>>, <<10, 200>>}

\* how the lengths of the three sequences may disagree with count
Cuts == {"none", "fewer registers", "more registers", "fewer factors", "fewer ranges"}

CallBatch ==
    /\ last = NoCall
    /\ \E u \in DOMAIN VSD_NAMES, count \in 1..MaxCount, cut \in Cuts,
          kind \in {"ok", "error", "exception"} :
        \E regs \in [1..count -> RawValues], sf \in [1..count -> Divisors],
           vr \in [1..count -> Ranges] :
            /\ kind # "ok" => (cut = "none" /\ regs = [i \in 1..count |-> 0])
            /\ LET registers == CASE cut = "fewer registers" -> SubSeq(regs, 1, count - 1)
                                  [] cut = "more registers" -> Append(regs, 0)
                                  [] OTHER -> regs
                   scaling_factors == IF cut = "fewer factors"
                                      THEN SubSeq(sf, 1, count - 1) ELSE sf
                   valid_ranges == IF cut = "fewer ranges"
                                   THEN SubSeq(vr, 1, count - 1) ELSE vr
                   resp == CASE kind = "error" -> ErrResp
                             [] kind = "exception" -> ExcResp
                             [] OTHER -> RegResp(registers)
               IN  last' = BatchCall(u, count, scaling_factors, valid_ranges, resp)
    /\ UNCHANGED mainVars

CallStatus ==
    /\ last = NoCall
    /\ \E u \in DOMAIN VSD_NAMES, count \in 1..MaxCount,
          kind \in {"ok", "short", "error", "exception"} :
        \E bits \in [1..8 -> BOOLEAN] :
            /\ kind # "ok" => bits = [i \in 1..8 |-> FALSE]
            /\ variant # "ver12" => count = 1
            /\ LET resp == CASE kind = "error" -> ErrResp
                             [] kind = "exception" -> ExcResp
                             [] kind = "short" -> BitResp(SubSeq(bits, 1, 7))
                             [] OTHER -> BitResp(bits)
               IN  last' = StatusCall(variant, u, resp, count)
    /\ UNCHANGED mainVars

NextRead ==
    \/ CallBatch
    \/ CallStatus

InitRead == Init /\ db = NoTables

SpecRead == InitRead /\ [][NextRead]_vars

----------------------------------------------------------------------------
(* Claims about the readers.                                                *)

\* the decoding loop raises: a register without factor or range, or a zero factor
DecodingFails(c) ==
    \E i \in 1..Len(c.response.registers) :
        \/ i > Len(c.scaling_factors)
        \/ i > Len(c.valid_ranges)
        \/ c.scaling_factors[i] = 0

\* C1: for a successful response, element i of the result of read_vsd_data_batch
\* is exactly registers[i] / scaling_factors[i] when that quotient lies in
\* valid_ranges[i], both bounds included, and None otherwise; it is never a
\* clamped bound.
C1_ScaledOrInvalid ==
    (last.fn = "batch" /\ last.response.kind = "ok" /\ ~DecodingFails(last)) =>
        /\ ~last.ret.raised
        /\ Len(last.ret.value) = Len(last.response.registers)
        /\ \A i \in 1..Len(last.response.registers) :
            LET r == last.response.registers[i]
                d == last.scaling_factors[i]
                lo == last.valid_ranges[i][1]
                hi == last.valid_ranges[i][2]
                v == last.ret.value[i]
            IN  IF lo * d <= r /\ r <= hi * d
                THEN v.tag = "float" /\ v.d > 0 /\ v.n * d = r * v.d
                ELSE v = None

\* the two examples of the claim in one call: 4567/100 in [-50,100] is 45.67,
\* 15000/100 in [0,50] is invalid
C1_Witness ==
    /\ last.fn = "batch"
    /\ last.response = RegResp(<<4567, 15000>>)
    /\ last.scaling_factors = <<100, 100>>
    /\ last.valid_ranges = <<<<-50, 100>>, <<0, 50>>>>
    /\ last.ret.value = <<[tag |-> "float", n |-> 4567, d |-> 100, s |-> ""], None>>

\* C2: read_vsd_data_batch never raises; on an error response or on any
\* exception during the read or the decoding the result is [None] * count,
\* with none of the values decoded so far.
C2_NeverRaises ==
    last.fn = "batch" =>
        /\ ~last.ret.raised
        /\ (last.response.kind \in {"error", "exception"} \/ DecodingFails(last))
               => last.ret.value = [i \in 1..last.count |-> None]

\* the first register decodes to 45.67, the second has no scaling factor
C2_Witness ==
    /\ last.fn = "batch"
    /\ last.count = 2
    /\ last.response = RegResp(<<4567, 500>>)
    /\ last.scaling_factors = <<100>>
    /\ last.valid_ranges = <<<<-50, 100>>, <<0, 50>>>>
    /\ last.ret = Ret(<<None, None>>)

\* a successfully read vector of 8 flags
StatusRead(c) == c.fn = "status" /\ c.response.kind = "ok" /\ Len(c.response.bits) = 8

Triple(bits, fault, normal, alarm) ==
    <<Str(IF bits[3] THEN "RUN" ELSE "STOP"),
      Str(IF bits[4] THEN fault ELSE normal),
      Str(IF bits[8] THEN alarm ELSE normal)>>

\* C8 as stated: in all three variants the result of read_vsd_status is
\* (RUN if b[2] else STOP, FAULT if b[3] else NORMAL, ALARM if b[7] else NORMAL).
C8_AsStated ==
    StatusRead(last) =>
        last.ret = Ret(Triple(last.response.bits, "FAULT", "NORMAL", "ALARM"))

\* C8 amended: in the logging and ver13 variants the result is
\* (RUN if b[2] else STOP, FAULT if b[3] else NORMAL, ALARM if b[7] else NORMAL);
\* in ver12 it is (RUN if b[2] else STOP, RUN if b[3] else STOP, RUN if b[7]
\* else STOP); in all three no other flag influences the result.
C8_StatusTriple ==
    StatusRead(last) =>
        last.ret = Ret(IF variant = "ver12"
                       THEN Triple(last.response.bits, "RUN", "STOP", "RUN")
                       ELSE Triple(last.response.bits, "FAULT", "NORMAL", "ALARM"))

\* the example of the claim: [F,F,T,F,F,F,F,T] gives (RUN, NORMAL, ALARM)
C8_Witness ==
    /\ variant = "logging"
    /\ last.fn = "status"
    /\ last.response = BitResp(<<FALSE, FALSE, TRUE, FALSE, FALSE, FALSE, FALSE, TRUE>>)
    /\ last.ret.value = <<Str("RUN"), Str("NORMAL"), Str("ALARM")>>

\* C9: read_vsd_status never raises, and when the discrete-input read fails
\* (error response or exception) it returns exactly three invalid markers.
C9_AllInvalidTriple ==
    (last.fn = "status" /\ last.response.kind \in {"error", "exception"}) =>
        last.ret = Ret(<<None, None, None>>)

----------------------------------------------------------------------------
(* Claims about main().                                                     *)

\* the response unit u gave to the named read of the current cycle
Heard(u, read) ==
    heard[CHOOSE j \in 1..Len(heard) : heard[j].unit = u /\ heard[j].read = read]

\* the read that feeds a list, and where the value sits in its response
Feed(v, f) ==
    CASE f = "run_status" -> [read |-> "status", idx |-> 3, lo |-> 0, hi |-> 0]
      [] f = "fault_status" -> [read |-> "status", idx |-> 4, lo |-> 0, hi |-> 0]
      [] f = "alarm_status" -> [read |-> "status", idx |-> 8, lo |-> 0, hi |-> 0]
      [] f = "temperatures" /\ v = "ver13" ->
             [read |-> "temperature", idx |-> 1, lo |-> -50, hi |-> 100]
      [] f = "currents" /\ v = "ver13" ->
             [read |-> "current", idx |-> 1, lo |-> 0, hi |-> 200]
      [] f = "frequencies" /\ v = "ver13" ->
             [read |-> "frequency", idx |-> 1, lo |-> 0, hi |-> 50]
      [] f = "temperatures" -> [read |-> "batch", idx |-> 8, lo |-> -50, hi |-> 100]
      [] f = "currents" -> [read |-> "batch", idx |-> 2, lo |-> 0, hi |-> 200]
      [] OTHER -> [read |-> "batch", idx |-> 1, lo |-> 0, hi |-> 50]

Divisor(v) == IF v = "ver13" THEN 100 ELSE 10

Requested(v) == IF v = "ver13" THEN 1 ELSE 8

\* unit u has a valid reading for list f in the current cycle
ValidReading(v, f, u) ==
    LET m == Feed(v, f)
        resp == Heard(u, m.read).response
    IN  /\ resp.kind = "ok"
        /\ m.read = "status" \/
             /\ Len(resp.registers) = Requested(v)
             /\ m.lo * Divisor(v) <= resp.registers[m.idx]
             /\ resp.registers[m.idx] <= m.hi * Divisor(v)

\* the invalid markers the scripts put into a row
InvalidMarkers == {None, Str("Error")}

\* the reading of unit u for list f: the scaled register or the status label
Reading(v, f, u) ==
    LET m == Feed(v, f)
        resp == Heard(u, m.read).response
    IN  IF ~ValidReading(v, f, u)
        THEN (IF v = "ver13" /\ m.read # "status" THEN Str("Error") ELSE None)
        ELSE IF m.read # "status" THEN TrueDiv(resp.registers[m.idx], Divisor(v))
        ELSE CASE f = "run_status" -> Str(IF resp.bits[3] THEN "RUN" ELSE "STOP")
               [] f = "fault_status" -> Str(IF resp.bits[4] THEN "FAULT" ELSE "NORMAL")
               [] OTHER -> Str(IF resp.bits[8] THEN "ALARM" ELSE "NORMAL")

Min(a, b) == IF a < b THEN a ELSE b

ScalarLists == {"temperatures", "currents", "frequencies",
                "run_status", "fault_status", "alarm_status"}

\* C3: isolation.  In two runs of a cycle over the same responses, the second
\* with every read of unit failUnit failing, each other unit has the same value
\* at its position of every list in both runs, and failUnit's positions of the
\* second run hold invalid markers.
C3_Isolation ==
    /\ \A f \in ScalarLists :
        /\ \A i \in 1..Min(Len(acc[f]), Len(twin.acc[f])) :
               i # failUnit => acc[f][i] = twin.acc[f][i]
        /\ failUnit \in 1..Len(twin.acc[f]) => twin.acc[f][failUnit] \in InvalidMarkers
    /\ \A i \in 1..Min(Len(acc.statuses), Len(twin.acc.statuses)) :
           i # failUnit => acc.statuses[i] = twin.acc.statuses[i]
    /\ failUnit \in 1..Len(twin.acc.statuses) =>
           \A j \in 1..Len(twin.acc.statuses[failUnit]) :
               twin.acc.statuses[failUnit][j] = None

\* the unit loop is over; unit 1 answered in the first run and failed in the
\* second, unit 2 has the same valid temperature in both
C3_Witness ==
    /\ failUnit = 1
    /\ pc = "save"
    /\ acc.temperatures[1].tag = "float"
    /\ twin.acc.temperatures[1] \in InvalidMarkers
    /\ acc.temperatures[2].tag = "float"
    /\ twin.acc.temperatures[2] = acc.temperatures[2]
    /\ acc.run_status # twin.acc.run_status \/ acc.statuses # twin.acc.statuses

\* C4: every row handed to save_to_database has exactly TOTAL_UNITS values,
\* and the value at position u is the reading of unit u obtained in this
\* cycle, an invalid marker when its read failed.
C4_RowsInRegistryOrder ==
    \A k \in 1..Len(calls) :
        /\ Len(calls[k].values) = TOTAL_UNITS
        /\ \A u \in 1..TOTAL_UNITS :
               calls[k].values[u] = Reading(variant, SaveCalls(variant)[k][2], u)

\* a temperature row was handed over with unit 1 invalid and unit 2 valid
C4_Witness ==
    \E k \in 1..Len(calls) :
        /\ calls[k].table = "vsd_temp"
        /\ calls[k].values[1] \in InvalidMarkers
        /\ calls[k].values[2].tag = "float"

\* C5 as stated: no read failure and no save_to_database failure terminates
\* the process or aborts the cycle: the process is never terminated, and
\* whenever control is back at the top of the loop the unit loop of the
\* cycle has visited all TOTAL_UNITS units.
C5_NeverStopsNorAborts ==
    /\ pc # "crashed"
    /\ (pc = "loop" /\ cycle > 0) =>
           \E r \in {"status", "batch"} :
               \E j \in 1..Len(heard) : heard[j].unit = TOTAL_UNITS /\ heard[j].read = r

\* C6 as stated: once the persisting phase of a cycle is over, every
\* save_to_database call of the cycle has been made, whichever of them failed.
C6_EverySaveAttempted ==
    (calls # <<>> /\ pc # "save") => Len(calls) = Len(SaveCalls(variant))

\* the database was absent when the script started
StartedEmpty ==
    DOMAIN db = IF pc = "start"
                THEN {CreateTables(variant)[i] : i \in 1..(create_idx - 1)}
                ELSE DOMAIN Schema(variant)

\* C7 as stated: from an empty database, with no read or store failure and all
\* values in range, after N cycles every table created by initialize_database
\* holds exactly N rows with all unit columns valid.
C7_RowCount ==
    (StartedEmpty /\ faults = 0 /\ pc = "loop") =>
        \A t \in DOMAIN db :
            /\ Len(db[t].rows) = cycle
            /\ \A i \in 1..Len(db[t].rows) : \A u \in 1..TOTAL_UNITS :
                   db[t].rows[i].values[u] \notin InvalidMarkers

StatusLabelValues == {Str("RUN"), Str("STOP"), Str("FAULT"), Str("NORMAL"), Str("ALARM")}

\* C10: where a unit's reading is invalid in the cycle, the value handed to
\* save_to_database at its position is a sentinel: not a number (so not 0)
\* and not a status label.
C10_InvalidIsSentinel ==
    \A k \in 1..Len(calls) : \A u \in 1..Len(calls[k].values) :
        ~ValidReading(variant, SaveCalls(variant)[k][2], u) =>
            /\ calls[k].values[u].tag \notin {"float", "text"}
            /\ calls[k].values[u] \notin StatusLabelValues

\* a current row with a genuine zero reading for unit 1 and the sentinel for
\* the failed unit 2
C10_Witness ==
    \E k \in 1..Len(calls) :
        /\ calls[k].table = "vsd_current"
        /\ calls[k].values[1] = TrueDiv(0, 10)
        /\ ~ValidReading(variant, "currents", 2)
        /\ calls[k].values[2] \in InvalidMarkers

----------------------------------------------------------------------------
(* The store                                                                *)

\* C11: no statement of initialize_database raises, and each keeps every
\* table it finds, with its rows; run on a file that already holds the
\* variant's tables (a restart, after any number of cycles) the call leaves
\* the file as it was.
C11_InitializeIdempotent ==
    [][pc = "start" =>
          /\ pc' \in {"start", "loop"}
          /\ \A t \in DOMAIN db : t \in DOMAIN db' /\ db'[t] = db[t]
          /\ DOMAIN Schema(variant) \subseteq DOMAIN db => db' = db]_vars

\* the logging script reaches the top of its loop with no save made yet and
\* a cycle behind it only through a restart: initialize_database has run on a
\* file holding rows of an earlier cycle
C11_Witness ==
    /\ variant = "logging"
    /\ pc = "loop"
    /\ cycle > 0
    /\ calls = <<>>
    /\ \E t \in DOMAIN db : Len(db[t].rows) > 0

----------------------------------------------------------------------------
(* The cycle                                                                *)

\* C13: the date and time of a cycle are those of the clock before the
\* cycle's first read, however many reads have gone by since, and every row
\* the cycle has persisted carries that date and time.
C13_OneStampPerCycle ==
    /\ pc \in {"batch", "status", "temp", "current", "freq", "save", "sleep"} =>
           stamp = Stamp(clock - ReadSeconds * Len(heard))
    /\ \A k \in 1..Len(calls) :
           calls[k].ok =>
               LET rows == db[calls[k].table].rows
               IN  /\ rows[Len(rows)].date = stamp.date
                   /\ rows[Len(rows)].time = stamp.time

\* a row has been persisted after the minute has changed since the capture
C13_Witness ==
    /\ pc = "save"
    /\ \E k \in 1..Len(calls) : calls[k].ok
    /\ Stamp(clock) # stamp

\* the cycle started at 10:00 of 2024-01-01 by ver13 on the test bench is over:
\* all reads were made, unit 1 answered the temperature read with raw 4500,
\* unit 2's temperature read raised a transport error, nothing else failed
C14_Scenario ==
    /\ variant = "ver13"
    /\ cycle = 1
    /\ pc \in {"loop", "sleep"}
    /\ stamp = [date |-> 0, time |-> 600]
    /\ Len(heard) = 4 * TOTAL_UNITS
    /\ faults = 1
    /\ Heard(1, "temperature").response = RegResp(<<4500>>)
    /\ Heard(2, "temperature").response = ExcResp

\* C14 as stated: after that cycle the newest row of the temperature table is
\* (2024-01-01, 10:00, 44.5, <invalid>).
C14_EndToEndRow ==
    C14_Scenario =>
        /\ "vsd_temp" \in DOMAIN db
        /\ db["vsd_temp"].rows # <<>>
        /\ LET row == db["vsd_temp"].rows[Len(db["vsd_temp"].rows)]
           IN  /\ row.date = 0
               /\ row.time = 600
               /\ row.values[1].tag \in {"float", "text"}
               /\ row.values[1].n = 89
               /\ row.values[1].d = 2
               /\ row.values[2] \in InvalidMarkers

\* C15 as stated: two consecutive cycles are never started without a sleep of
\* READ_INTERVAL between them, also when a read or a store failed: main() has
\* slept once for every cycle it started but the newest.
C15_SleepBetweenCycles ==
    cycle > 0 => slept >= cycle - 1

\* C16 as stated: the reads of a cycle go unit by unit, and no register read
\* of a unit comes before the status read of that unit.
C16_StatusFirst ==
    \A j \in 1..Len(heard) :
        /\ \A i \in 1..j : heard[i].unit <= heard[j].unit
        /\ heard[j].read # "status" =>
               \E i \in 1..(j - 1) :
                   heard[i].unit = heard[j].unit /\ heard[i].read = "status"

\* the reads each script makes for one unit, in the order of its source
ReadOrder(v) ==
    IF v = "ver13" THEN <<"status", "temperature", "current", "frequency">>
    ELSE <<"batch", "status">>

\* C16, amended: the reads of a cycle go unit by unit in increasing order,
\* each unit's reads in the fixed order of the variant: ver13 reads the status
\* first and then temperature, current and frequency; logging and ver12 read
\* the register batch first and the status after it.
C16_FixedReadOrder ==
    LET n == Len(ReadOrder(variant))
    IN  \A j \in 1..Len(heard) :
            /\ heard[j].unit = ((j - 1) \div n) + 1
            /\ heard[j].read = ReadOrder(variant)[((j - 1) % n) + 1]

\* the logging script has made all reads of a cycle
C16_Witness ==
    /\ variant = "logging"
    /\ pc = "save"
    /\ Len(heard) = 2 * TOTAL_UNITS

\* C17: at most one request is outstanding on the shared client; a request is
\* outstanding only while main() is suspended at the read that sent it, so
\* the next one is sent after it returned or raised; and none is outstanding
\* while a row is persisted, while the loop sleeps, or between cycles.
C17_SingleFlight ==
    /\ inflight \in {0, 1}
    /\ inflight = 1 <=> awaiting
    /\ awaiting => pc \in {"batch", "status", "temp", "current", "freq"}
    /\ pc \in {"start", "loop", "save", "sleep", "crashed"} => inflight = 0

\* a request is outstanding after an earlier request of the cycle returned
C17_Witness ==
    /\ inflight = 1
    /\ heard # <<>>

\* C18: no retry and no carry-over.  No block of a unit is requested twice in
\* a cycle, whatever its response was, and when the unit loop is through every
\* block of every unit was requested once; every value in the lists is the
\* reading obtained from the responses of the current cycle, so what a cycle
\* persists does not depend on an earlier cycle.
C18_NoRetryNoCarryOver ==
    /\ \A i, j \in 1..Len(heard) :
           (heard[i].unit = heard[j].unit /\ heard[i].read = heard[j].read) => i = j
    /\ pc \in {"save", "sleep"} =>
           \A u \in 1..TOTAL_UNITS :
               \A k \in 1..Len(ReadOrder(variant)) :
                   \E j \in 1..Len(heard) :
                       heard[j].unit = u /\ heard[j].read = ReadOrder(variant)[k]
    /\ \A f \in ScalarLists :
           \A u \in 1..Len(acc[f]) :
               /\ \E j \in 1..Len(heard) :
                      heard[j].unit = u /\ heard[j].read = Feed(variant, f).read
               /\ acc[f][u] = Reading(variant, f, u)

\* unit 1's read failed in the first cycle and its temperature is invalid in
\* that cycle's row; the second cycle has persisted a valid temperature for it
C18_Witness ==
    /\ cycle = 2
    /\ "vsd_temp" \in DOMAIN db
    /\ Len(db["vsd_temp"].rows) = 2
    /\ db["vsd_temp"].rows[1].values[1] \in InvalidMarkers
    /\ db["vsd_temp"].rows[2].values[1].tag \in {"float", "text"}

----------------------------------------------------------------------------
(* Configuration                                                            *)

\* C19 as stated: a register spec whose scaling factors or valid ranges do
\* not number count is never first met inside read_vsd_data_batch and turned
\* into a result there: no call with such sequences returns a list.
C19_MismatchNotAtReadTime ==
    (/\ last.fn = "batch"
     /\ \/ Len(last.scaling_factors) # last.count
        \/ Len(last.valid_ranges) # last.count)
        => last.ret.raised

\* C20 as stated: starting from an empty database, every table main() passes
\* to save_to_database was created by the variant's initialize_database, and
\* when a cycle's persisting is through every created table was written once.
C20_SchemaConsistency ==
    StartedEmpty =>
        /\ \A k \in 1..Len(calls) : calls[k].table \in DOMAIN Schema(variant)
        /\ pc = "sleep" =>
               \A t \in DOMAIN Schema(variant) :
                   Cardinality({k \in 1..Len(calls) : calls[k].table = t}) = 1

----------------------------------------------------------------------------
(* The rows of a cycle across the tables, and the dashboard                 *)

\* the tables main() passes to save_to_database
WrittenTables(v) == {SaveCalls(v)[k][1] : k \in DOMAIN SaveCalls(v)}

\* number of rows of a table, none when the table does not exist
RowCount(t) == IF t \in DOMAIN db THEN Len(db[t].rows) ELSE 0

\* C21 as stated: where a new cycle starts and where the process has stopped,
\* all tables the variant writes hold the same number of rows.
C21_AllOrNothing ==
    pc \in {"loop", "crashed"} =>
        \A t1, t2 \in WrittenTables(variant) : RowCount(t1) = RowCount(t2)

\* C22 as stated: read_vsd_data_batch returns a list of exactly count
\* elements on every path, also when the device answers with fewer or more
\* registers than were requested.
C22_ReturnsCountElements ==
    last.fn = "batch" =>
        /\ ~last.ret.raised
        /\ Len(last.ret.value) = last.count

\* C23: for a table holding R rows a fetch returns min(R, 10) rows, those
\* with the highest ids, ordered by id descending, together with the column
\* names id, date, time and then one per unit in registry order, and leaves
\* the database unchanged.
C23_NewestTenRows ==
    [][fetched' # fetched =>
          /\ db' = db
          /\ fetched'.table \in DOMAIN db =>
                 LET all == db[fetched'.table].rows
                     got == fetched'.rows
                 IN  /\ ~fetched'.raised
                     /\ Len(got) = Min(Len(all), 10)
                     /\ \A i \in 1..(Len(got) - 1) : got[i].id > got[i + 1].id
                     /\ \A j \in 1..Len(all) :
                            (\E i \in 1..Len(got) : got[i] = all[j]) <=>
                                Cardinality({k \in 1..Len(all) :
                                                all[k].id > all[j].id}) < 10
                     /\ fetched'.column_names =
                            <<"id", "date", "time">> \o
                                [u \in 1..TOTAL_UNITS |-> VSD_NAMES[u]]]_vars

\* a table of 12 rows was read: the rows with the ids 12 down to 3 came back
C23_Witness ==
    /\ fetched.table = "vsd_temp"
    /\ Len(db["vsd_temp"].rows) = 12
    /\ Len(fetched.rows) = 10
    /\ fetched.rows[1].id = 12
    /\ fetched.rows[10].id = 3
    /\ \E i \in 1..10 : fetched.rows[i].values[1] = None

====
